---- MODULE Spec2Model ----
(***************************************************************************)
(* RESP frame decoder of diy-redis (src/src/frame.rs).                     *)
(*                                                                         *)
(* A buffer is a sequence of bytes (0..255); buffer offsets are 0-based as *)
(* in the source, so the byte at offset i is buf[i + 1].  A Cursor is the  *)
(* pair (buf, pos).  Every function of the decoder is an operator that     *)
(* takes the buffer and the cursor position and returns its result         *)
(* together with the cursor position it leaves behind.                     *)
(*                                                                         *)
(* i64 values do not fit the model checker's integers, so an integer is    *)
(* held as a sign and a decimal magnitude (most significant digit first,   *)
(* no leading zero, <<0>> for zero); the checked arithmetic of btoi is     *)
(* carried out on that representation against the bounds of the type.      *)
(***************************************************************************)
EXTENDS Integers, Sequences, FiniteSets, TLC

\* ------------------------------------------------------------------ bytes
CR == 13

LF == 10

PLUS == 43

MINUS == 45

COLON == 58

DOLLAR == 36

STAR == 42

\* ------------------------------------------------------------------ results
NoFrame == [tag |-> "None", data |-> <<>>, neg |-> FALSE]

Simple(text) == [tag |-> "Simple", data |-> text, neg |-> FALSE]

Error(text) == [tag |-> "Error", data |-> text, neg |-> FALSE]

Integer(neg, mag) == [tag |-> "Integer", data |-> mag, neg |-> neg]

Bulk(bytes) == [tag |-> "Bulk", data |-> bytes, neg |-> FALSE]

Null == [tag |-> "Null", data |-> <<>>, neg |-> FALSE]

\* Result<Frame>: kind is "Ok" or one of the Error variants; "Panic" is an
\* unwinding panic (todo!, a slice out of range).
OkFrame(frame, pos) == [kind |-> "Ok", frame |-> frame, pos |-> pos]

ErrFrame(kind, pos) == [kind |-> kind, frame |-> NoFrame, pos |-> pos]

\* Result<&[u8]>
OkLine(line, pos) == [kind |-> "Ok", line |-> line, pos |-> pos]

ErrLine(kind, pos) == [kind |-> kind, line |-> <<>>, pos |-> pos]

\* Option<usize>
None == [some |-> FALSE, val |-> 0]

Some(v) == [some |-> TRUE, val |-> v]

Min(a, b) == IF a <= b THEN a ELSE b

\* &buf[from..to] (0-based, half open)
Slice(buf, from, to) == SubSeq(buf, from + 1, to)

\* ------------------------------------------------------------------ memchr
\* Mutant: the last occurrence instead of the first (memrchr).
memchr_last(needle, buf, from, to) ==
    LET hits == {i \in from .. (to - 1) : buf[i + 1] = needle}
    IN  IF hits = {} THEN None
        ELSE Some((CHOOSE i \in hits : \A j \in hits : i >= j) - from)

\* memchr(needle, &buf[from..to]): index of the first occurrence relative to
\* from, as Some(i), or None.
memchr(needle, buf, from, to) ==
    LET hits == {i \in from .. (to - 1) : buf[i + 1] = needle}
    IN  IF hits = {} THEN None
        ELSE Some((CHOOSE i \in hits : \A j \in hits : i <= j) - from)

\* ------------------------------------------------------------------ String::from_utf8
IsCont(b) == b >= 128 /\ b <= 191

RECURSIVE Utf8From(_, _)
Utf8From(bytes, i) ==
    LET n == Len(bytes)
        b == bytes[i]
        At(k) == bytes[k]
        Has(k) == i + k <= n
    IN  IF i > n THEN TRUE
        ELSE IF b < 128 THEN Utf8From(bytes, i + 1)
        ELSE IF b >= 194 /\ b <= 223
            THEN Has(1) /\ IsCont(At(i + 1)) /\ Utf8From(bytes, i + 2)
        ELSE IF b = 224
            THEN Has(2) /\ At(i + 1) >= 160 /\ At(i + 1) <= 191 /\ IsCont(At(i + 2))
                 /\ Utf8From(bytes, i + 3)
        ELSE IF (b >= 225 /\ b <= 236) \/ b = 238 \/ b = 239
            THEN Has(2) /\ IsCont(At(i + 1)) /\ IsCont(At(i + 2))
                 /\ Utf8From(bytes, i + 3)
        ELSE IF b = 237
            THEN Has(2) /\ At(i + 1) >= 128 /\ At(i + 1) <= 159 /\ IsCont(At(i + 2))
                 /\ Utf8From(bytes, i + 3)
        ELSE IF b = 240
            THEN Has(3) /\ At(i + 1) >= 144 /\ At(i + 1) <= 191 /\ IsCont(At(i + 2))
                 /\ IsCont(At(i + 3)) /\ Utf8From(bytes, i + 4)
        ELSE IF b >= 241 /\ b <= 243
            THEN Has(3) /\ IsCont(At(i + 1)) /\ IsCont(At(i + 2))
                 /\ IsCont(At(i + 3)) /\ Utf8From(bytes, i + 4)
        ELSE IF b = 244
            THEN Has(3) /\ At(i + 1) >= 128 /\ At(i + 1) <= 143 /\ IsCont(At(i + 2))
                 /\ IsCont(At(i + 3)) /\ Utf8From(bytes, i + 4)
        ELSE FALSE

from_utf8(bytes) == Utf8From(bytes, 1)

\* ------------------------------------------------------------------ btoi
I64_MAX == <<9,2,2,3,3,7,2,0,3,6,8,5,4,7,7,5,8,0,7>>

I64_MIN == <<9,2,2,3,3,7,2,0,3,6,8,5,4,7,7,5,8,0,8>>

I32_MAX == <<2,1,4,7,4,8,3,6,4,7>>

I32_MIN == <<2,1,4,7,4,8,3,6,4,8>>

\* a < b on magnitudes
MagLess(a, b) ==
    \/ Len(a) < Len(b)
    \/ /\ Len(a) = Len(b)
       /\ \E i \in 1 .. Len(a) :
            /\ a[i] < b[i]
            /\ \A j \in 1 .. (i - 1) : a[j] = b[j]

\* char::to_digit(10)
IsDigit(b) == b >= 48 /\ b <= 57

\* result * 10 (+ or -) x on the magnitude
MulAdd(mag, x) == IF mag = <<0>> THEN <<x>> ELSE Append(mag, x)

BtoiErr == [ok |-> FALSE, neg |-> FALSE, mag |-> <<>>]

\* Mutant: the multiplication and the addition are not checked.
RECURSIVE BtoiLoop_wrapping(_, _, _, _, _)
BtoiLoop_wrapping(digits, i, mag, neg, bound) ==
    IF i > Len(digits) THEN [ok |-> TRUE, neg |-> neg /\ mag # <<0>>, mag |-> mag]
    ELSE IF ~IsDigit(digits[i]) THEN BtoiErr
    ELSE LET next == MulAdd(mag, digits[i] - 48)
         IN  BtoiLoop_wrapping(digits, i + 1, IF MagLess(bound, next) THEN <<0>> ELSE next,
                               neg, bound)

\* The digit loop: checked_mul by the radix, then checked_add (checked_sub for
\* a negative number); bound is the largest magnitude of the type on that side.
RECURSIVE BtoiLoop(_, _, _, _, _)
BtoiLoop(digits, i, mag, neg, bound) ==
    IF i > Len(digits) THEN [ok |-> TRUE, neg |-> neg /\ mag # <<0>>, mag |-> mag]
    ELSE IF ~IsDigit(digits[i]) THEN BtoiErr
    ELSE LET next == MulAdd(mag, digits[i] - 48)
         IN  IF MagLess(bound, next) THEN BtoiErr
             ELSE BtoiLoop(digits, i + 1, next, neg, bound)

\* btou: no sign accepted
btou(bytes, max) ==
    IF bytes = <<>> THEN BtoiErr ELSE BtoiLoop(bytes, 1, <<0>>, FALSE, max)

\* Mutant: a negative number is accumulated upwards and negated, so the
\* minimum of the type overflows.
btoi_negate(bytes, max, min) ==
    IF bytes = <<>> THEN BtoiErr
    ELSE IF bytes[1] = PLUS THEN btou(Tail(bytes), max)
    ELSE IF bytes[1] = MINUS
        THEN IF Tail(bytes) = <<>> THEN BtoiErr
             ELSE BtoiLoop(Tail(bytes), 1, <<0>>, TRUE, max)
    ELSE btou(bytes, max)

\* btoi::<I>(bytes), I given by its bounds
btoi(bytes, max, min) ==
    IF bytes = <<>> THEN BtoiErr
    ELSE IF bytes[1] = PLUS THEN btou(Tail(bytes), max)
    ELSE IF bytes[1] = MINUS
        THEN IF Tail(bytes) = <<>> THEN BtoiErr
             ELSE BtoiLoop(Tail(bytes), 1, <<0>>, TRUE, min)
    ELSE btou(bytes, max)

\* len as usize, for 0 <= len <= i32::MAX
RECURSIVE MagToNat(_)
MagToNat(mag) ==
    IF mag = <<>> THEN 0
    ELSE MagToNat(SubSeq(mag, 1, Len(mag) - 1)) * 10 + mag[Len(mag)]

\* ------------------------------------------------------------------ cursor
\* Buf::remaining for Cursor: len.saturating_sub(pos)
remaining(buf, pos) == IF pos >= Len(buf) THEN 0 ELSE Len(buf) - pos

has_remaining(buf, pos) == remaining(buf, pos) > 0

\* Result<u8> with the cursor position left behind
get_u8(buf, pos) ==
    IF ~has_remaining(buf, pos) THEN [kind |-> "Incomplete", byte |-> 0, pos |-> pos]
    ELSE [kind |-> "Ok", byte |-> buf[pos + 1], pos |-> pos + 1]

\* ------------------------------------------------------------------ line scanner
\* The test of line 120 as written in the source.
LimitExhausted(limit, len) == limit.some /\ limit.val > len

\* Mutant: the cursor is moved past the CR before the LF is known to exist.
MissingLF_consumed(pos, expected_lf_pos) == ErrLine("Incomplete", expected_lf_pos)

\* The buffer ends at the CR: Incomplete, the cursor not moved.
MissingLF(pos, expected_lf_pos) == ErrLine("Incomplete", pos)

\* Mutant: the returned slice ends after the CR instead of before it.
LineSlice_with_cr(buf, start, expected_lf_pos) == Slice(buf, start, expected_lf_pos)

\* &buff_ref[start..expected_lf_pos - 1]: the line without its CR LF
LineSlice(buf, start, expected_lf_pos) == Slice(buf, start, expected_lf_pos - 1)

\* Mutant: an LF before the CR is looked for only once a byte follows the CR.
StrayLF_after_length(buf, start, expected_lf_pos) ==
    Len(buf) > expected_lf_pos /\ memchr(LF, buf, start, expected_lf_pos).some

\* memchr(b'\n', &buff_ref[start..expected_lf_pos]).is_some()
StrayLF(buf, start, expected_lf_pos) == memchr(LF, buf, start, expected_lf_pos).some

read_line_with_limit(buf, pos, limit) ==
    LET start == pos
        len == Len(buf)
        end == Min(IF limit.some THEN limit.val ELSE len, len)
    IN  IF start > end THEN ErrLine("Panic", pos)
        ELSE
        LET cr_pos == memchr(CR, buf, start, end)
            expected_lf_pos == start + cr_pos.val + 1
        IN  IF ~cr_pos.some
                THEN IF LimitExhausted(limit, len)
                        THEN ErrLine("UnexpectedError", pos)
                        ELSE ErrLine("Incomplete", pos)
            ELSE IF StrayLF(buf, start, expected_lf_pos)
                THEN ErrLine("UnexpectedError", pos)
            ELSE IF len <= expected_lf_pos
                THEN MissingLF(pos, expected_lf_pos)
            ELSE IF buf[expected_lf_pos + 1] # LF
                THEN ErrLine("UnexpectedError", pos)
            ELSE OkLine(LineSlice(buf, start, expected_lf_pos), expected_lf_pos + 1)

\* Mutant: the scan starts at the head of the buffer, not at the cursor.
read_line_from_zero(buf, pos) == read_line_with_limit(buf, 0, None)

read_line(buf, pos) == read_line_with_limit(buf, pos, None)

\* Mutant: the terminating CR LF is left unconsumed.
read_binary_line_short(buf, pos, content_len) ==
    IF remaining(buf, pos) - 2 < content_len THEN ErrLine("Incomplete", pos)
    ELSE
    LET end == pos + content_len
    IN  IF buf[end + 1] # CR \/ buf[end + 2] # LF THEN ErrLine("UnexpectedError", end + 2)
        ELSE OkLine(Slice(buf, pos, end), end)

\* Mutant: the payload is read as a line, up to its first CR.
read_binary_line_as_line(buf, pos, content_len) == read_line(buf, pos)

\* Mutant: the two bytes after the payload are consumed but not compared.
read_binary_line_unchecked(buf, pos, content_len) ==
    IF remaining(buf, pos) - 2 < content_len THEN ErrLine("Incomplete", pos)
    ELSE OkLine(Slice(buf, pos, pos + content_len), pos + content_len + 2)

\* content_len + 2 is written as remaining - 2 < content_len: usize is 64 bits
\* wide and content_len is at most i32::MAX, so the sum cannot overflow.
\* The two get_u8 calls of lines 164-165 run on a cursor that has at least two
\* bytes left, so they cannot panic.
read_binary_line(buf, pos, content_len) ==
    IF remaining(buf, pos) - 2 < content_len THEN ErrLine("Incomplete", pos)
    ELSE
    LET start == pos
        end == start + content_len
        data == Slice(buf, start, end)
        cr == buf[end + 1]
        lf == buf[end + 2]
    IN  IF cr # CR \/ lf # LF THEN ErrLine("UnexpectedError", end + 2)
        ELSE OkLine(data, end + 2)

\* ------------------------------------------------------------------ Frame
Frame_simple(line, pos) ==
    IF from_utf8(line) THEN OkFrame(Simple(line), pos)
    ELSE ErrFrame("UnexpectedError", pos)

Frame_error(line, pos) ==
    IF from_utf8(line) THEN OkFrame(Error(line), pos)
    ELSE ErrFrame("UnexpectedError", pos)

Frame_integer(line, pos) ==
    LET v == btoi(line, I64_MAX, I64_MIN)
    IN  IF v.ok THEN OkFrame(Integer(v.neg, v.mag), pos)
        ELSE ErrFrame("UnexpectedError", pos)

len_512_mb_no == 9

len_crlf == 2

Frame_bulk(buf, pos) ==
    LET limit == pos + len_512_mb_no + len_crlf
        hdr == read_line_with_limit(buf, pos, Some(limit))
        len == btoi(hdr.line, I32_MAX, I32_MIN)
    IN  IF hdr.kind # "Ok" THEN ErrFrame(hdr.kind, hdr.pos)
        ELSE IF ~len.ok THEN ErrFrame("UnexpectedError", hdr.pos)
        ELSE IF len.neg /\ len.mag = <<1>> THEN OkFrame(Null, hdr.pos)
        ELSE IF len.neg THEN ErrFrame("UnexpectedError", hdr.pos)
        ELSE
        LET n == MagToNat(len.mag)
            body == read_binary_line(buf, hdr.pos, n)
        IN  IF body.kind # "Ok" THEN ErrFrame(body.kind, body.pos)
            ELSE IF Len(body.line) # n THEN ErrFrame("UnexpectedError", body.pos)
            ELSE OkFrame(Bulk(body.line), body.pos)

\* ------------------------------------------------------------------ parse
\* Mutant: the line is read before the sigil is looked at, so an unknown sigil
\* is reported only once its line is complete.
parse_line_first(buf, pos) ==
    LET first_byte == get_u8(buf, pos)
        line == read_line(buf, first_byte.pos)
    IN  IF first_byte.kind # "Ok" THEN ErrFrame(first_byte.kind, first_byte.pos)
        ELSE IF first_byte.byte = DOLLAR THEN Frame_bulk(buf, first_byte.pos)
        ELSE IF first_byte.byte = STAR THEN ErrFrame("Panic", first_byte.pos)
        ELSE IF line.kind # "Ok" THEN ErrFrame(line.kind, line.pos)
        ELSE IF first_byte.byte = PLUS THEN Frame_simple(line.line, line.pos)
        ELSE IF first_byte.byte = MINUS THEN Frame_error(line.line, line.pos)
        ELSE IF first_byte.byte = COLON THEN Frame_integer(line.line, line.pos)
        ELSE ErrFrame("UnsupportedFrameType", line.pos)

parse(buf, pos) ==
    LET first_byte == get_u8(buf, pos)
        line == read_line(buf, first_byte.pos)
    IN  IF first_byte.kind # "Ok" THEN ErrFrame(first_byte.kind, first_byte.pos)
        ELSE IF first_byte.byte \in {PLUS, MINUS, COLON}
            THEN IF line.kind # "Ok" THEN ErrFrame(line.kind, line.pos)
                 ELSE IF first_byte.byte = PLUS THEN Frame_simple(line.line, line.pos)
                 ELSE IF first_byte.byte = MINUS THEN Frame_error(line.line, line.pos)
                 ELSE Frame_integer(line.line, line.pos)
        ELSE IF first_byte.byte = DOLLAR THEN Frame_bulk(buf, first_byte.pos)
        ELSE IF first_byte.byte = STAR THEN ErrFrame("Panic", first_byte.pos)
        ELSE ErrFrame("UnsupportedFrameType", first_byte.pos)

\* ------------------------------------------------------------------ state
VARIABLES
    buf,    \* the bytes buffered so far (the slice under the Cursor)
    pos,    \* the cursor position left by the last parse call
    start,  \* the cursor position the last parse call started from
    res,    \* the result of the last parse call ("None": no call yet)
    wire,   \* bytes the peer has sent that have not been buffered yet
    sent,   \* the frames the peer encoded, each with its encoding
    out,    \* the frames returned by the successive calls on the current cursor
    scan,   \* the last direct call of the line scanner: start, limit, result
    inner,  \* ShardedDb.inner: the map of each shard, shared by every clone
    holder, \* the clone that holds each shard's Mutex, or "none"
    task,   \* each clone's call in progress on the store
    hasher, \* the value DefaultHasher::new() gives each key
    last    \* per key, the value of the latest insert that took effect

decoder == <<buf, pos, start, res, wire, sent, out, scan>>

store == <<inner, holder, task, hasher, last>>

vars == <<decoder, store>>

NoScan == [start |-> 0, limit |-> None, res |-> ErrLine("None", 0)]

NoResult == [kind |-> "None", frame |-> NoFrame, pos |-> 0]

\* A panic unwinds the caller: nothing runs after it.
Alive == res.kind # "Panic"

\* let mut cursor = Cursor::new(buf); parse(&mut cursor)
ParseFresh(b) ==
    LET r == parse(b, 0)
    IN  /\ start' = 0
        /\ res' = r
        /\ pos' = r.pos
        /\ out' = IF r.kind = "Ok" THEN <<r.frame>> ELSE <<>>

\* ------------------------------------------------------------------ operations
\* One more byte arrives and the decode is retried from offset 0.
Feed(b, max) ==
    /\ Alive
    /\ wire = <<>>
    /\ Len(buf) < max
    /\ buf' = Append(buf, b)
    /\ ParseFresh(buf')
    /\ UNCHANGED <<wire, sent, scan, store>>

\* The next n bytes of the wire arrive and the decode is retried from offset 0.
Recv(n) ==
    /\ Alive
    /\ n \in 1 .. Len(wire)
    /\ buf' = buf \o SubSeq(wire, 1, n)
    /\ wire' = SubSeq(wire, n + 1, Len(wire))
    /\ ParseFresh(buf')
    /\ UNCHANGED <<sent, scan, store>>

\* A decode from offset 0 over the buffer as it is.
Retry ==
    /\ Alive
    /\ ParseFresh(buf)
    /\ UNCHANGED <<buf, wire, sent, scan, store>>

\* A further parse call on the same cursor, after a frame was returned.
ParseNext ==
    /\ Alive
    /\ res.kind = "Ok"
    /\ LET r == parse(buf, pos)
       IN  /\ start' = pos
           /\ res' = r
           /\ pos' = r.pos
           /\ out' = IF r.kind = "Ok" THEN Append(out, r.frame) ELSE out
    /\ UNCHANGED <<buf, wire, sent, scan, store>>

\* let mut cursor = Cursor::new(buf); cursor.set_position(p); read_line(&mut cursor)
ReadLine(p) ==
    /\ p \in 0 .. Len(buf)
    /\ scan' = [start |-> p, limit |-> None, res |-> read_line(buf, p)]
    /\ UNCHANGED <<buf, pos, start, res, wire, sent, out, store>>

\* The same with a limit, which the caller takes at or after the position.
ReadLineWithLimit(p, l) ==
    /\ p \in 0 .. Len(buf)
    /\ l >= p
    /\ scan' = [start |-> p, limit |-> Some(l), res |-> read_line_with_limit(buf, p, Some(l))]
    /\ UNCHANGED <<buf, pos, start, res, wire, sent, out, store>>

\* ------------------------------------------------------------------ inputs
MaxLen == 4

MaxBody == 5

MaxFrames == 2

MaxDigits == 2

MaxZeros == 1

MaxLine == 5

LineBytes == {CR, LF, DOLLAR}

\* + - : $ * ! 1 CR LF 0xFF
Alphabet == {PLUS, MINUS, COLON, DOLLAR, STAR, 33, 49, CR, LF, 255}

\* CR LF NUL a
BodyBytes == {CR, LF, 0, 97}

CRLF == <<CR, LF>>

RECURSIVE SeqsUpTo(_, _)
SeqsUpTo(S, n) ==
    IF n = 0 THEN {<<>>}
    ELSE LET shorter == SeqsUpTo(S, n - 1)
         IN  shorter \cup {Append(s, x) : s \in {t \in shorter : Len(t) = n - 1}, x \in S}

RECURSIVE Zeros(_)
Zeros(k) == IF k = 0 THEN <<>> ELSE <<48>> \o Zeros(k - 1)

\* n.to_string() for n >= 0
RECURSIVE Decimal(_)
Decimal(n) == IF n < 10 THEN <<48 + n>> ELSE Append(Decimal(n \div 10), 48 + (n % 10))

\* The ASCII digits of a magnitude.
MagDigits(mag) == [i \in 1 .. Len(mag) |-> 48 + mag[i]]

Signs == {<<>>, <<PLUS>>, <<MINUS>>}

\* Bulk length headers: canonical, signed, zero padded, malformed, at and past
\* i32::MAX, and longer than the 10 bytes the bounded scan can see.
Headers ==
    {Decimal(n) : n \in 0 .. MaxBody}
    \cup {s \o Zeros(z) \o d : s \in Signs, z \in 0 .. MaxZeros, d \in {<<48>>, <<49>>, <<50>>}}
    \cup {<<>>, <<MINUS>>, <<97>>, <<49, 97>>, <<32, 49>>, <<MINUS, 51>>}
    \cup {MagDigits(I32_MAX), MagDigits(I32_MIN), <<MINUS>> \o MagDigits(I32_MIN)}
    \cup {Zeros(9) \o <<50>>, Zeros(10) \o <<50>>, MagDigits(I32_MAX) \o <<57>>}

\* The first 18 digits of i64::MAX.
P18 == MagDigits(SubSeq(I64_MAX, 1, 18))

IntBodies ==
    SeqsUpTo({48, 49, 57}, MaxDigits)
    \cup {Append(P18, d) : d \in {54, 55, 56, 57}}
    \cup {P18 \o <<48, 48>>}
    \cup {<<97>>, <<49, 97>>, <<49, MINUS>>, <<49, PLUS>>, <<32, 49>>, <<49, LF>>}

IntLines == {s \o Zeros(z) \o d : s \in Signs, z \in 0 .. MaxZeros, d \in IntBodies}

\* ------------------------------------------------------------------ wire grammar
\* The grammar of the frames, stated apart from the decoder.
StripSign(line) ==
    IF line # <<>> /\ line[1] \in {PLUS, MINUS} THEN Tail(line) ELSE line

RECURSIVE StripZeros(_)
StripZeros(ds) ==
    IF Len(ds) > 1 /\ ds[1] = 48 THEN StripZeros(Tail(ds)) ELSE ds

\* [+|-]<digits>
IsIntText(line) ==
    /\ StripSign(line) # <<>>
    /\ \A i \in 1 .. Len(StripSign(line)) : StripSign(line)[i] \in 48 .. 57

\* The magnitude and the sign of a line of the integer grammar.
TextMag(line) ==
    LET ds == StripZeros(StripSign(line)) IN [i \in 1 .. Len(ds) |-> ds[i] - 48]

TextNeg(line) == line[1] = MINUS /\ TextMag(line) # <<0>>

MagLeq(a, b) == a = b \/ MagLess(a, b)

InRange(line, max, min) ==
    IF TextNeg(line) THEN MagLeq(TextMag(line), min) ELSE MagLeq(TextMag(line), max)

WSimple(t) == [bytes |-> <<PLUS>> \o t \o CRLF, frame |-> Simple(t)]

WError(t) == [bytes |-> <<MINUS>> \o t \o CRLF, frame |-> Error(t)]

WInteger(line) ==
    [bytes |-> <<COLON>> \o line \o CRLF, frame |-> Integer(TextNeg(line), TextMag(line))]

WBulk(c) == [bytes |-> <<DOLLAR>> \o Decimal(Len(c)) \o CRLF \o c \o CRLF, frame |-> Bulk(c)]

WNull == [bytes |-> <<DOLLAR, MINUS, 49>> \o CRLF, frame |-> Null]

\* "", "OK", "e-acute" as text; "0", "-0", "+7", "-12" as integers; "", "a",
\* CR LF and NUL CR as bulk payloads.
WireFrames ==
    {WSimple(t) : t \in {<<>>, <<79, 75>>, <<195, 169>>}}
    \cup {WError(t) : t \in {<<>>, <<69>>}}
    \cup {WInteger(l) : l \in {<<48>>, <<MINUS, 48>>, <<PLUS, 55>>, <<MINUS, 49, 50>>}}
    \cup {WBulk(c) : c \in {<<>>, <<97>>, CRLF, <<0, CR>>}}
    \cup {WNull}

RECURSIVE Concat(_)
Concat(ws) == IF ws = <<>> THEN <<>> ELSE Head(ws).bytes \o Concat(Tail(ws))

Streams == {ws \in SeqsUpTo(WireFrames, MaxFrames) : ws # <<>>}

\* ------------------------------------------------------------------ the sharded store
Keys == {"a", "b"}

\* Bytes values
Values == {<<120>>, <<121>>}

\* The clones of the store, one per spawned connection task.
Clones == {"c1", "c2", "c3"}

MaxShards == 2

\* Only hash % num_shards is used: the low values of u64 stand for all.
Hashes == 0 .. (MaxShards - 1)

default_shards == 8

EmptyMap == [k \in Keys |-> None]

new_sized(num_shards) == [i \in 1 .. num_shards |-> EmptyMap]

new == new_sized(default_shards)

Unlocked(shards) == [i \in 1 .. Len(shards) |-> "none"]

IdleTask == [pc |-> "idle", op |-> "none", key |-> "", value |-> <<>>,
             shard |-> 0, ret |-> None, seen |-> None]

shard(key, num_shards) == hasher[key] % num_shards

\* Mutant: the shard depends on the clone that asks.
guard_by_clone(self, key) ==
    (hasher[key] + (IF self = "c1" THEN 0 ELSE 1)) % Len(inner)

\* guard: the index of the shard whose Mutex is locked
guard(self, key) == shard(key, Len(inner))

\* Mutex::lock returns once no other thread holds the lock.
CanLock(s) == holder[s + 1] = "none"

\* process: Command::Get(cmd) => db.get(cmd.key())
CallGet(self, key) ==
    /\ task[self].pc = "idle"
    /\ task' = [task EXCEPT ![self] =
                    [IdleTask EXCEPT !.pc = "guard", !.op = "get", !.key = key]]
    /\ UNCHANGED <<inner, holder, hasher, last, decoder>>

\* process: Command::Set(cmd) => db.insert(cmd.key(), cmd.value().clone())
CallInsert(self, key, value) ==
    /\ task[self].pc = "idle"
    /\ task' = [task EXCEPT ![self] =
                    [IdleTask EXCEPT !.pc = "guard", !.op = "insert",
                                     !.key = key, !.value = value]]
    /\ UNCHANGED <<inner, holder, hasher, last, decoder>>

\* let guard = self.guard(key): blocks while another clone holds the shard
Guard(self) ==
    /\ task[self].pc = "guard"
    /\ LET s == guard(self, task[self].key)
       IN  /\ CanLock(s)
           /\ holder' = [holder EXCEPT ![s + 1] = self]
           /\ task' = [task EXCEPT ![self].pc = "held", ![self].shard = s]
    /\ UNCHANGED <<inner, hasher, last, decoder>>

\* guard.db.get(key).cloned()
Get(self) ==
    /\ task[self].pc = "held"
    /\ task[self].op = "get"
    /\ task' = [task EXCEPT ![self].pc = "drop",
                            ![self].ret = inner[task[self].shard + 1][task[self].key],
                            ![self].seen = last[task[self].key]]
    /\ UNCHANGED <<inner, holder, hasher, last, decoder>>

\* guard.db.insert(key.to_string(), value): the old value is taken ...
InsertTake(self) ==
    /\ task[self].pc = "held"
    /\ task[self].op = "insert"
    /\ task' = [task EXCEPT ![self].pc = "write",
                            ![self].ret = inner[task[self].shard + 1][task[self].key]]
    /\ UNCHANGED <<inner, holder, hasher, last, decoder>>

\* ... and the new one stored in its place
InsertStore(self) ==
    /\ task[self].pc = "write"
    /\ inner' = [inner EXCEPT ![task[self].shard + 1][task[self].key] =
                                    Some(task[self].value)]
    /\ last' = [last EXCEPT ![task[self].key] = Some(task[self].value)]
    /\ task' = [task EXCEPT ![self].pc = "drop",
                            ![self].seen = last[task[self].key]]
    /\ UNCHANGED <<holder, hasher, decoder>>

\* The MutexGuard is dropped when get or insert returns.
Drop(self) ==
    /\ task[self].pc = "drop"
    /\ holder' = [holder EXCEPT ![task[self].shard + 1] = "none"]
    /\ task' = [task EXCEPT ![self] = IdleTask]
    /\ UNCHANGED <<inner, hasher, last, decoder>>

\* ------------------------------------------------------------------ specifications
\* let db: ShardedDb = ShardedDb::new(): no connection yet
NoClients ==
    /\ inner = new
    /\ holder = Unlocked(new)
    /\ task = [c \in Clones |-> IdleTask]
    /\ hasher = [k \in Keys |-> 0]
    /\ last = EmptyMap

Idle ==
    /\ pos = 0
    /\ start = 0
    /\ res = NoResult
    /\ out = <<>>
    /\ scan = NoScan
    /\ NoClients

\* Arbitrary bytes arrive one at a time.
Init ==
    /\ buf = <<>>
    /\ wire = <<>>
    /\ sent = <<>>
    /\ Idle

Next ==
    \/ \E b \in Alphabet : Feed(b, MaxLen)
    \/ Retry
    \/ ParseNext

Spec == Init /\ [][Next]_vars

\* A bulk header line is buffered; arbitrary body bytes follow one at a time.
InitBulk ==
    /\ buf \in {<<DOLLAR>> \o h \o CRLF : h \in Headers}
    /\ wire = <<>>
    /\ sent = <<>>
    /\ Idle

HeaderEnd(b) == (CHOOSE i \in 1 .. Len(b) : b[i] = CR /\ \A j \in 1 .. (i - 1) : b[j] # CR) + 1

NextBulk ==
    \/ \E b \in BodyBytes : Feed(b, HeaderEnd(buf) + MaxBody)
    \/ Retry
    \/ ParseNext

SpecBulk == InitBulk /\ [][NextBulk]_vars

\* The peer sends one or more valid frames; they arrive in arbitrary chunks.
InitStream ==
    /\ buf = <<>>
    /\ sent \in Streams
    /\ wire = Concat(sent)
    /\ Idle

NextStream ==
    \/ \E n \in 1 .. Len(wire) : Recv(n)
    \/ Retry
    \/ ParseNext

SpecStream == InitStream /\ [][NextStream]_vars

\* The peer sends one ':' line, well formed or not; it arrives in arbitrary chunks.
InitInt ==
    /\ buf = <<>>
    /\ sent = <<>>
    /\ wire \in {<<COLON>> \o l \o CRLF : l \in IntLines}
    /\ Idle

NextInt ==
    \/ \E n \in 1 .. Len(wire) : Recv(n)
    \/ Retry
    \/ ParseNext

SpecInt == InitInt /\ [][NextInt]_vars

\* Some bytes are buffered; the line scanner is called at any position of
\* them, without a limit and with any limit from there on, and the decoder
\* from offset 0.
InitLine ==
    /\ buf \in SeqsUpTo(LineBytes, MaxLine)
    /\ wire = <<>>
    /\ sent = <<>>
    /\ Idle

NextLine ==
    \/ \E p \in 0 .. Len(buf) : ReadLine(p)
    \/ \E p \in 0 .. Len(buf) : \E l \in p .. (Len(buf) + 1) : ReadLineWithLimit(p, l)
    \/ Retry

SpecLine == InitLine /\ [][NextLine]_vars

\* A store of any number of shards, under any hash of the keys, and the
\* connection tasks calling get and insert through their clones.
InitDb ==
    /\ \E n \in 1 .. MaxShards :
        /\ inner = new_sized(n)
        /\ holder = Unlocked(new_sized(n))
    /\ hasher \in [Keys -> Hashes]
    /\ task = [c \in Clones |-> IdleTask]
    /\ last = EmptyMap
    /\ buf = <<>>
    /\ wire = <<>>
    /\ sent = <<>>
    /\ pos = 0
    /\ start = 0
    /\ res = NoResult
    /\ out = <<>>
    /\ scan = NoScan

NextDb ==
    \/ \E c \in Clones : \E k \in Keys : CallGet(c, k)
    \/ \E c \in Clones : \E k \in Keys : \E v \in Values : CallInsert(c, k, v)
    \/ \E c \in Clones : Guard(c)
    \/ \E c \in Clones : Get(c)
    \/ \E c \in Clones : InsertTake(c)
    \/ \E c \in Clones : InsertStore(c)
    \/ \E c \in Clones : Drop(c)

SpecDb == InitDb /\ [][NextDb]_vars

\* ------------------------------------------------------------------ properties
\* A call was made, from offset 0.
Called0 == res.kind # "None" /\ start = 0

Fatal == {"UnsupportedFrameType", "UnexpectedError"}

IsPrefix(a, b) == Len(a) <= Len(b) /\ a = SubSeq(b, 1, Len(a))

\* The offset of the first CR at or after offset from, or the buffer length.
FirstCR(b, from) ==
    IF \E i \in from .. (Len(b) - 1) : b[i + 1] = CR
    THEN CHOOSE i \in from .. (Len(b) - 1) :
            b[i + 1] = CR /\ \A j \in from .. (i - 1) : b[j + 1] # CR
    ELSE Len(b)

\* C1: every parse call from offset 0 returns Ok(Frame), Incomplete,
\* UnsupportedFrameType or a protocol error; it never panics, whatever the
\* first byte is.
C1_NoPanic ==
    Called0 =>
        /\ res.kind \in {"Ok", "Incomplete", "UnsupportedFrameType", "UnexpectedError"}
        /\ res.kind = "Ok" <=> res.frame.tag \in {"Simple", "Error", "Integer", "Bulk", "Null"}

\* C2: while a single valid frame is only partly buffered, the decode from
\* offset 0 returns Incomplete; once it is wholly buffered, however it was
\* chunked, the decode returns the frame that was encoded.
C2_IncrementalDelivery ==
    (Len(sent) = 1 /\ Called0) =>
        IF wire # <<>> THEN res.kind = "Incomplete"
        ELSE res = OkFrame(sent[1].frame, Len(buf))

\* The frames of the first k encoded frames, and their total encoded length.
FramesOf(ws) == [i \in 1 .. Len(ws) |-> ws[i].frame]

SentLen(k) == Len(Concat(SubSeq(sent, 1, k)))

\* The encoded length of the frame returned from offset s of b: sigil, line,
\* CR LF, and for Bulk the payload and its CR LF.
EncodedLen(b, s, f) ==
    IF f.tag \in {"Simple", "Error"} THEN 1 + Len(f.data) + 2
    ELSE IF f.tag = "Bulk" THEN 1 + (FirstCR(b, s + 1) - (s + 1)) + 2 + Len(f.data) + 2
    ELSE 1 + (FirstCR(b, s + 1) - (s + 1)) + 2

\* C3: a call that returns Ok leaves the cursor at its start plus the encoded
\* length of the frame; successive calls over a concatenation of valid frames
\* return the frames in order, each once, and the call made at the end of the
\* buffer returns Incomplete.
C3_CursorAfterFrame ==
    /\ res.kind = "Ok" =>
        /\ pos = start + EncodedLen(buf, start, res.frame)
        /\ out # <<>>
        /\ start = SentLen(Len(out) - 1)
        /\ pos = SentLen(Len(out))
    /\ Len(out) <= Len(sent)
    /\ out = FramesOf(SubSeq(sent, 1, Len(out)))
    /\ (res.kind # "None" /\ start >= Len(buf)) => res.kind = "Incomplete"
    /\ (res.kind # "None" /\ wire = <<>>) =>
        \/ res.kind = "Ok"
        \/ res.kind = "Incomplete" /\ start = Len(buf) /\ out = FramesOf(sent)

C3_Witness ==
    /\ Len(sent) = 2
    /\ sent[1].frame.tag = "Bulk"
    /\ wire = <<>>
    /\ res.kind = "Incomplete"
    /\ start = Len(buf)
    /\ out = FramesOf(sent)

\* C4: once the decode from offset 0 has returned UnsupportedFrameType or a
\* protocol error, the decode from offset 0 over any extension of the buffer
\* returns one of those two as well.
C4_ErrorsPermanent ==
    [][(Called0 /\ res.kind \in Fatal /\ start' = 0 /\ IsPrefix(buf, buf'))
        => res'.kind \in Fatal]_vars

\* C5 as stated: a call that returns Incomplete leaves the cursor where it
\* started.
C5_NothingConsumed == res.kind = "Incomplete" => pos = start

\* C5: a call that returns Incomplete leaves the cursor within the buffer: at
\* its start when no byte was available there; otherwise just after the sigil,
\* or, when the bounded scan found the CR LF of a bulk header and the body is
\* short, just after that CR LF.
C5_IncompleteCursor ==
    res.kind = "Incomplete" =>
        LET p == FirstCR(buf, start + 1)
            header_read ==
                /\ buf[start + 1] = DOLLAR
                /\ p < start + 1 + len_512_mb_no + len_crlf
                /\ p + 1 < Len(buf)
        IN  /\ pos <= Len(buf)
            /\ IF start >= Len(buf) THEN pos = start
               ELSE IF header_read THEN pos = p + 2
               ELSE pos = start + 1

C5_Witness ==
    /\ res.kind = "Incomplete"
    /\ start = 0
    /\ Len(buf) >= 4
    /\ buf[1] = DOLLAR
    /\ pos = Len(buf)

\* The payload of the buffer when it is '$' decimal(n) CR LF c CR LF with c of
\* n bytes.
BulkPayload(n) == SubSeq(buf, 1 + Len(Decimal(n)) + 2 + 1, Len(buf) - 2)

IsBulkOf(n) ==
    /\ Len(buf) = 1 + Len(Decimal(n)) + 2 + n + 2
    /\ buf = <<DOLLAR>> \o Decimal(n) \o CRLF \o BulkPayload(n) \o CRLF

\* C6: '$' decimal(n) CR LF c CR LF, c being any n bytes, decodes to Bulk(c).
C6_BinarySafety ==
    \A n \in 0 .. Len(buf) :
        (Called0 /\ IsBulkOf(n)) =>
            /\ res = OkFrame(Bulk(BulkPayload(n)), Len(buf))
            /\ Len(res.frame.data) = n

C6_Witness ==
    /\ Called0
    /\ IsBulkOf(3)
    /\ BulkPayload(3) = <<CR, LF, 0>>
    /\ res.kind = "Ok"

\* The header line of the buffered '$' frame, and what follows its CR LF.
HeaderLine == SubSeq(buf, 2, FirstCR(buf, 1))

BodyLen == Len(buf) - (FirstCR(buf, 1) + 2)

BodyAt(i) == buf[FirstCR(buf, 1) + 2 + i]

HeaderComplete ==
    /\ buf # <<>>
    /\ buf[1] = DOLLAR
    /\ FirstCR(buf, 1) + 1 < Len(buf)
    /\ buf[FirstCR(buf, 1) + 2] = LF
    /\ \A i \in 1 .. Len(HeaderLine) : HeaderLine[i] # LF

\* The value of a non-negative magnitude of at most 10 digits that fits i32.
RECURSIVE MagNat(_, _)
MagNat(mag, i) == IF i > Len(mag) THEN 0 ELSE mag[i] * 10 ^ (Len(mag) - i) + MagNat(mag, i + 1)

\* The header is one the decoder reads as a length n >= 0: within the 10 bytes
\* of the bounded scan, of the integer grammar, not negative, within i32.
HeaderIsLength ==
    /\ HeaderComplete
    /\ Len(HeaderLine) <= len_512_mb_no + 1
    /\ IsIntText(HeaderLine)
    /\ ~TextNeg(HeaderLine)
    /\ MagLeq(TextMag(HeaderLine), I32_MAX)

\* C7: after a header of length n >= 0: fewer than n + 2 bytes give Incomplete;
\* n + 2 or more whose bytes n and n + 1 are not CR LF give a protocol error;
\* otherwise the result is Bulk of the first n bytes.
C7_BulkBody ==
    (Called0 /\ HeaderIsLength) =>
        LET n == MagNat(TextMag(HeaderLine), 1)
            h == FirstCR(buf, 1) + 2
        IN  IF BodyLen - 2 < n THEN res.kind = "Incomplete"
            ELSE IF BodyAt(n + 1) # CR \/ BodyAt(n + 2) # LF THEN res.kind = "UnexpectedError"
            ELSE res = OkFrame(Bulk(SubSeq(buf, h + 1, h + n)), h + n + 2)

C7_Witness ==
    /\ Called0
    /\ HeaderIsLength
    /\ HeaderLine = <<50>>
    /\ BodyLen = 5
    /\ BodyAt(3) = CR
    /\ BodyAt(4) = CR
    /\ res.kind = "UnexpectedError"

\* C8: after a complete header line: Null exactly when the value is -1, with
\* the cursor just after the header's CR LF; a protocol error, with no body
\* byte read, when the header is empty, malformed, below -1 or outside i32.
C8_BulkHeader ==
    (Called0 /\ HeaderComplete) =>
        LET h == FirstCR(buf, 1) + 2
            wellformed == IsIntText(HeaderLine)
            fits == wellformed /\ InRange(HeaderLine, I32_MAX, I32_MIN)
            minus_one == fits /\ TextNeg(HeaderLine) /\ TextMag(HeaderLine) = <<1>>
        IN  /\ (res.kind = "Ok" /\ res.frame = Null) <=> minus_one
            /\ minus_one => res.pos = h
            /\ (~fits \/ (TextNeg(HeaderLine) /\ ~minus_one)) =>
                    res.kind = "UnexpectedError" /\ res.pos <= h

\* The ':' line of the buffer once the whole frame is buffered.
IntLine == SubSeq(buf, 2, Len(buf) - 2)

IntLineBuffered ==
    /\ Called0
    /\ wire = <<>>
    /\ Len(buf) >= 3
    /\ buf[1] = COLON
    /\ SubSeq(buf, Len(buf) - 1, Len(buf)) = CRLF
    /\ \A i \in 1 .. Len(IntLine) : IntLine[i] # CR

IntLineValid == IsIntText(IntLine) /\ InRange(IntLine, I64_MAX, I64_MIN)

\* C9: a ':' line of the integer grammar whose value is within i64 decodes to
\* Integer of exactly that value.
C9_IntegerValue ==
    (IntLineBuffered /\ IntLineValid) =>
        res = OkFrame(Integer(TextNeg(IntLine), TextMag(IntLine)), Len(buf))

C9_Witness ==
    /\ IntLineBuffered
    /\ IntLine = <<MINUS, 48>> \o MagDigits(I64_MIN)
    /\ res.kind = "Ok"
    /\ res.frame = Integer(TRUE, I64_MIN)

\* C10: a complete ':' line that is not a valid in-range integer gives a
\* protocol error, never an Integer.
C10_IntegerRejected ==
    (IntLineBuffered /\ ~IntLineValid) =>
        res.kind = "UnexpectedError" /\ res.frame.tag # "Integer"

C10_Witness ==
    /\ IntLineBuffered
    /\ IntLine = Append(P18, 56)
    /\ res.kind = "UnexpectedError"

\* The encoding of a frame by the wire grammar.
Encode(f) ==
    IF f.tag = "Simple" THEN <<PLUS>> \o f.data \o CRLF
    ELSE IF f.tag = "Error" THEN <<MINUS>> \o f.data \o CRLF
    ELSE IF f.tag = "Integer"
        THEN <<COLON>> \o (IF f.neg THEN <<MINUS>> ELSE <<>>) \o MagDigits(f.data) \o CRLF
    ELSE IF f.tag = "Bulk" THEN <<DOLLAR>> \o Decimal(Len(f.data)) \o CRLF \o f.data \o CRLF
    ELSE <<DOLLAR, MINUS, 49>> \o CRLF

\* C11: encoding a returned frame by the wire grammar and decoding that
\* encoding from offset 0 returns an equal frame, and consumes all of it.
C11_RoundTrip ==
    res.kind = "Ok" =>
        parse(Encode(res.frame), 0) = OkFrame(res.frame, Len(Encode(res.frame)))

C11_Witness ==
    /\ res.kind = "Ok"
    /\ res.frame = Integer(FALSE, <<7>>)
    /\ Encode(res.frame) # SubSeq(buf, start + 1, pos)
    /\ parse(Encode(res.frame), 0).kind = "Ok"

\* C12: the text of a returned Simple or Error holds no CR and no LF and is
\* exactly the bytes between the sigil and the first CR after it; '+' gives
\* Simple and '-' gives Error.
C12_TextOfLine ==
    (res.kind = "Ok" /\ res.frame.tag \in {"Simple", "Error"}) =>
        /\ \A i \in 1 .. Len(res.frame.data) : res.frame.data[i] \notin {CR, LF}
        /\ res.frame.data = SubSeq(buf, start + 2, FirstCR(buf, start + 1))
        /\ buf[start + 1] = IF res.frame.tag = "Simple" THEN PLUS ELSE MINUS
        /\ (FirstCR(buf, start + 1) = start + 1) => res.frame.data = <<>>

C12_Witness ==
    /\ Called0
    /\ buf = <<MINUS, 33>> \o CRLF
    /\ res.kind = "Ok"
    /\ res.frame = Error(<<33>>)

Sigils == {PLUS, MINUS, COLON, DOLLAR, STAR}

\* C13: a call returns UnsupportedFrameType exactly when a byte is available
\* at the cursor and it is none of + - : $ *, whatever follows it; with no
\* byte available the call returns Incomplete.
C13_UnsupportedSigil ==
    res.kind # "None" =>
        /\ res.kind = "UnsupportedFrameType"
            <=> (start < Len(buf) /\ buf[start + 1] \notin Sigils)
        /\ start >= Len(buf) => res.kind = "Incomplete"

C13_Witness ==
    /\ Called0
    /\ Len(buf) = 3
    /\ buf[1] = 255
    /\ buf[2] = PLUS
    /\ res.kind = "UnsupportedFrameType"

\* The end of the region the last scan searched, and whether it holds a CR.
ScanEnd == IF scan.limit.some THEN Min(scan.limit.val, Len(buf)) ELSE Len(buf)

ScanFoundCR == FirstCR(buf, scan.start) < ScanEnd

Scanned == scan.res.kind # "None"

\* C14: a scan that finds no CR in its region is a protocol error when a limit
\* was given and is at most the buffer length, and Incomplete otherwise; for a
\* bulk header: 11 or more bytes after '$' with no CR among the first 11 is a
\* protocol error, fewer than 11 with no CR is Incomplete.
C14_NoCRInRegion ==
    /\ (Scanned /\ ~ScanFoundCR) =>
        scan.res.kind = IF scan.limit.some /\ scan.limit.val <= Len(buf)
                        THEN "UnexpectedError" ELSE "Incomplete"
    /\ (Called0 /\ buf # <<>> /\ buf[1] = DOLLAR
            /\ FirstCR(buf, 1) >= Min(1 + len_512_mb_no + len_crlf, Len(buf))) =>
        res.kind = IF Len(buf) - 1 >= len_512_mb_no + len_crlf
                   THEN "UnexpectedError" ELSE "Incomplete"

\* C15: once the first CR is found at p: an LF before p is a protocol error,
\* even when nothing follows the CR; else nothing after the CR is Incomplete;
\* else a byte other than LF after the CR is a protocol error.
C15_OrderOfChecks ==
    (Scanned /\ ScanFoundCR) =>
        LET p == FirstCR(buf, scan.start)
        IN  IF \E i \in scan.start .. (p - 1) : buf[i + 1] = LF
                THEN scan.res.kind = "UnexpectedError"
            ELSE IF p + 1 >= Len(buf) THEN scan.res.kind = "Incomplete"
            ELSE IF buf[p + 2] # LF THEN scan.res.kind = "UnexpectedError"
            ELSE scan.res.kind = "Ok"

C15_Witness ==
    /\ Scanned
    /\ ~scan.limit.some
    /\ scan.start = 1
    /\ buf = <<DOLLAR, DOLLAR, LF, CR>>
    /\ scan.res.kind = "UnexpectedError"

\* C16: over prefix, content, CR LF, suffix, content holding no CR and no LF,
\* read_line from the end of the prefix returns exactly content and leaves the
\* cursor just after the CR LF.
C16_LineAtAnyPosition ==
    LET p == FirstCR(buf, scan.start)
    IN  (/\ Scanned
         /\ ~scan.limit.some
         /\ p + 1 < Len(buf)
         /\ buf[p + 2] = LF
         /\ \A i \in scan.start .. (p - 1) : buf[i + 1] # LF) =>
            scan.res = OkLine(SubSeq(buf, scan.start + 1, p), p + 2)

C16_Witness ==
    /\ Scanned
    /\ ~scan.limit.some
    /\ scan.start = 1
    /\ buf = <<CR, DOLLAR, CR, LF, LF>>
    /\ scan.res = OkLine(<<DOLLAR>>, 4)

\* The clones inside a call that have passed guard.
Holding == {c \in Clones : task[c].pc \in {"held", "write", "drop"}}

\* The value a get of key k would find now.
Stored(k) == inner[shard(k, Len(inner)) + 1][k]

\* C17: under any interleaving of get and insert through clones, every key
\* maps to one shard, a call holds the lock of that shard and no other, insert
\* returns the value stored immediately before, get returns the value of the
\* latest insert, and calls on other keys do not change the value seen for a key.
C17_Linearizable ==
    /\ \A c, d \in Holding : task[c].key = task[d].key => task[c].shard = task[d].shard
    /\ \A c \in Holding : holder[task[c].shard + 1] = c
    /\ \A i \in 1 .. Len(inner) : \A c \in Clones :
            holder[i] = c => (c \in Holding /\ task[c].shard = i - 1)
    /\ \A c \in Clones : task[c].pc = "drop" => task[c].ret = task[c].seen
    /\ \A k \in Keys : Stored(k) = last[k]

C17_Witness ==
    /\ Len(inner) = 2
    /\ shard("a", 2) = shard("b", 2)
    /\ task["c1"].pc = "drop"
    /\ task["c1"].op = "insert"
    /\ task["c1"].key = "a"
    /\ task["c1"].ret = Some(<<120>>)
    /\ Stored("a") = Some(<<121>>)
    /\ Stored("b") = Some(<<120>>)
    /\ task["c2"].pc = "guard"
    /\ task["c2"].op = "get"
    /\ task["c2"].key = "b"

====
